---- MODULE Spec2Model ----
(***************************************************************************)
(* knowledge-ingress: the structured ingestion pipeline                    *)
(* (scripts/Invoke-Ingress.ps1 with its helpers of lib.ps1), the two       *)
(* simple pipeline variants (OAuth flow and API key), and the artifact     *)
(* repository registry with its command line (artifact-repos.ts, cli.ts).  *)
(* Spec is the structured pipeline, SpecSimple the simple variants,        *)
(* SpecRepos the registry with the artifact files, SpecStatus the          *)
(* validate-repos command, SpecInitRepo one call of initRepo, SpecRace     *)
(* registerRepo called by two processes; each runs over its own group of   *)
(* variables.                                                              *)
(***************************************************************************)
EXTENDS Integers, Sequences, FiniteSets, TLC

\* ------------------------------------------------------------------ bounds
\* Largest value of the UTC clock (in seconds) a run timestamp is taken from.
MaxTime == 1

\* ------------------------------------------------ structured pipeline: data
VARIABLES mode, fileArg, commitCfg, inbox, now, drv, files, idx, processed,
          pc, cur, resp, runs, artifacts, runWrote, calls, errLog, ingressLog,
          commitRes, exitCode, handled, lastStatus, cycleRan

ingVars == <<mode, fileArg, commitCfg, inbox, now, drv, files, idx, processed,
             pc, cur, resp, runs, artifacts, runWrote, calls, errLog,
             ingressLog, commitRes, exitCode, handled, lastStatus, cycleRan>>

\* The simple pipeline variants (OAuth flow, API key).
VARIABLES variant, sOnce, sInbox, sArchive, sOutput, sDrv, sFiles, sIdx, sPc,
          sFile, sText, sNow, cachedToken, tokenExpiresAt, tokenResp,
          accessToken, flowResp, sResult, sErr, lastCheck, tokenCalls

simpleVars == <<variant, sOnce, sInbox, sArchive, sOutput, sDrv, sFiles, sIdx,
                sPc, sFile, sText, sNow, cachedToken, tokenExpiresAt, tokenResp,
                accessToken, flowResp, sResult, sErr, lastCheck, tokenCalls>>

\* The artifact repository registry, artifact files and the command line.
VARIABLES regFile, regInserted, fs, disk, regPc, regArgs, regLoaded,
          opResult, cliPc, cliEntries, cliStatuses, cliOut, cliExit

repoVars == <<regFile, regInserted, fs, disk, regPc, regArgs, regLoaded,
              opResult, cliPc, cliEntries, cliStatuses, cliOut, cliExit>>

vars == <<ingVars, simpleVars, repoVars>>

notIngVars == <<simpleVars, repoVars>>
notSimpleVars == <<ingVars, repoVars>>
notRepoVars == <<ingVars, simpleVars>>

Absent == "absent"
None == "none"

\* The files that can be dropped in the ingress folder, and what they hold
\* ("" is a zero-byte file).
FileNames == {"notes.txt", "call.md"}
Contents == {"hello", "hi", ""}

\* The three artifact kinds of a Flow response, and the values a remote
\* endpoint can put in artifact.type and artifact.id.
Kinds == {"norm", "tac", "sig"}
Types == {"norm", "tac", "sig", "NORM"}
IdsOf(kind) ==
    CASE kind = "norm" -> {"n1", "n2"}
      [] kind = "tac"  -> {"t1"}
      [] OTHER         -> {"s1"}

\* One of response.norm / response.tac / response.sig: absent, or an object
\* carrying artifact.type and artifact.id.
MissingField == [present |-> FALSE, type |-> None, id |-> None]
FieldVals(kind) == {MissingField} \cup [present : {TRUE}, type : Types, id : IdsOf(kind)]

\* What Invoke-FlowRequest can give back: it throws, or Invoke-RestMethod
\* returns the parsed body, which is empty/null or a JSON object.
NoResp == [st |-> None, norm |-> MissingField, tac |-> MissingField, sig |-> MissingField]
FlowOutcomes ==
    [st : {"threw", "empty"}, norm : {MissingField}, tac : {MissingField}, sig : {MissingField}]
    \cup [st : {"json"}, norm : FieldVals("norm"), tac : FieldVals("tac"),
           sig : FieldVals("sig")]

\* ------------------------------------------------------ lib.ps1 functions
\* Get-Sha12: the first 12 hex characters of the SHA-256 of the text.
Get_Sha12(text) ==
    CASE text = "hello" -> "2cf24dba5fb0"
      [] text = "hi"    -> "8f434346648f"
      [] OTHER          -> None

Shas == {Get_Sha12(c) : c \in Contents \ {""}}

\* PowerShell compares strings without regard to case with -eq and -ne.
ToLowerInvariant(s) ==
    CASE s = "NORM" -> "norm"
      [] OTHER      -> s

PsNe(a, b) == ToLowerInvariant(a) # ToLowerInvariant(b)

\* Get-ChildItem, once per extension in the order *.txt, *.md, *.rtf.
ScanOrder == <<"notes.txt", "call.md">>

Listing(box) == SelectSeq(ScanOrder, LAMBDA f : box[f] # Absent)

\* The run folder {runsDir}/{timestamp}_{sha12} of the current run.
RunFolder(c) == <<c.ts, c.sha>>

RunKeys == (0..MaxTime) \X Shas

EmptyFolder ==
    [raw |-> None, request |-> None, response |-> FALSE, meta |-> None,
     source |-> None, error |-> None]

\* Write-JsonFile of meta.json into the run folder: the whole file is
\* replaced (status, source and, for a failed run, the error message).
WriteMeta(rs, c, status, err) ==
    [rs EXCEPT ![RunFolder(c)].meta = status, ![RunFolder(c)].source = c.file,
               ![RunFolder(c)].error = err]

\* $_.Exception.Message in the catch block: the error of the POST, or the
\* parameter-binding error of Write-JsonFile.
ErrorMessage(r) == IF r.st = "threw" THEN "flow_request_error" ELSE "bind_null_object"

\* Mutant of ArtifactPath: every artifact goes to the norm subdirectory.
ArtifactPathOneDir(kind, field) == <<"norm", field.id>>

\* The artifact path {artifactsDir}\{kind}\{id}.json.
ArtifactPath(kind, field) == <<kind, field.id>>

\* Validate response (lines 150-161): presence of the three fields, then,
\* only when all three are present, the three type tags.
ValidationErrors(r) ==
    LET missing == {k \in Kinds : ~ r[k].present}
    IN  IF missing # {}
        THEN {<<"missing", k>> : k \in missing}
        ELSE {<<"type", k>> : k \in {k \in Kinds : PsNe(r[k].type, k)}}

ResponseValid(r) == ValidationErrors(r) = {}

NoRun == [file |-> None, ts |-> 0, sha |-> None, content |-> None]

\* ------------------------------------------------------------- Init
IngInit ==
    /\ mode \in {"file", "once", "watch"}
    /\ fileArg \in IF mode = "file" THEN FileNames ELSE {None}
    /\ commitCfg \in BOOLEAN
    /\ inbox \in [FileNames -> Contents \cup {Absent}]
    /\ now = 0
    /\ drv = "main"
    /\ files = <<>>
    /\ idx = 1
    /\ processed = {}
    /\ pc = "idle"
    /\ cur = NoRun
    /\ resp = NoResp
    /\ runs = [k \in RunKeys |-> EmptyFolder]
    /\ artifacts = {}
    /\ runWrote = <<>>
    /\ calls = 0
    /\ errLog = <<>>
    /\ ingressLog = <<>>
    /\ commitRes = None
    /\ exitCode = None
    /\ handled = [f \in FileNames |-> 0]
    /\ lastStatus = [f \in FileNames |-> None]
    /\ cycleRan = {}

\* ------------------------------------------------------------- driver
drvVars == <<drv, files, idx, processed, exitCode, cycleRan>>
runVars == <<pc, cur, resp, runs, artifacts, runWrote, calls, errLog,
             ingressLog, commitRes, handled, lastStatus, now>>
cfgVars == <<mode, fileArg, commitCfg>>

\* A transcript file is dropped in the ingress folder (by the operator).
Arrive ==
    /\ drv \in {"main", "scan"}
    /\ \E f \in FileNames, c \in Contents :
          /\ inbox[f] = Absent
          /\ inbox' = [inbox EXCEPT ![f] = c]
    /\ UNCHANGED <<notIngVars, drvVars, runVars, cfgVars>>

\* -File: a single named file (lines 241-248).
MainFile ==
    /\ drv = "main" /\ mode = "file"
    /\ IF inbox[fileArg] = Absent
       THEN /\ drv' = "exit" /\ exitCode' = "1"
            /\ UNCHANGED <<files, idx>>
       ELSE /\ drv' = "foreach" /\ files' = <<fileArg>> /\ idx' = 1
            /\ UNCHANGED exitCode
    /\ UNCHANGED <<notIngVars, processed, cycleRan, inbox, runVars, cfgVars>>

\* -Once: all pending files, once (lines 249-268).
MainOnce ==
    /\ drv = "main" /\ mode = "once"
    /\ files' = Listing(inbox)
    /\ idx' = 1
    /\ IF Len(Listing(inbox)) = 0
       THEN drv' = "exit" /\ exitCode' = "0"
       ELSE drv' = "foreach" /\ UNCHANGED exitCode
    /\ UNCHANGED <<notIngVars, processed, cycleRan, inbox, runVars, cfgVars>>

\* Watch mode starts with an empty $processed table (lines 269-274).
MainWatch ==
    /\ drv = "main" /\ mode = "watch"
    /\ processed' = {}
    /\ drv' = "scan"
    /\ UNCHANGED <<notIngVars, files, idx, exitCode, cycleRan, inbox, runVars, cfgVars>>

\* One poll cycle lists the ingress folder (lines 276-281).
WatchScan ==
    /\ drv = "scan"
    /\ files' = Listing(inbox)
    /\ idx' = 1
    /\ cycleRan' = {}
    /\ drv' = "foreach"
    /\ UNCHANGED <<notIngVars, processed, exitCode, inbox, runVars, cfgVars>>

\* Watch mode passes over a file that is in $processed (line 284).
DriverSkip ==
    /\ drv = "foreach" /\ pc = "idle" /\ idx <= Len(files)
    /\ mode = "watch" /\ files[idx] \in processed
    /\ idx' = idx + 1
    /\ UNCHANGED <<notIngVars, drv, files, processed, exitCode, cycleRan, inbox, runVars, cfgVars>>

\* The next file handed over without a look at $processed.
DriverCallWithoutSet ==
    /\ drv = "foreach" /\ pc = "idle" /\ idx <= Len(files)
    /\ pc' = "begin"
    /\ cur' = [NoRun EXCEPT !.file = files[idx]]
    /\ handled' = [handled EXCEPT ![files[idx]] = @ + 1]
    /\ cycleRan' = cycleRan \cup {files[idx]}
    /\ UNCHANGED <<notIngVars, drv, files, idx, processed, exitCode, inbox, cfgVars, resp,
                   runs, artifacts, runWrote, calls, errLog, ingressLog,
                   commitRes, lastStatus, now>>

\* The driver hands the next file to Invoke-ProcessTranscript
\* (lines 247, 266, 285).
DriverCall ==
    /\ drv = "foreach" /\ pc = "idle" /\ idx <= Len(files)
    /\ ~ (mode = "watch" /\ files[idx] \in processed)
    /\ pc' = "begin"
    /\ cur' = [NoRun EXCEPT !.file = files[idx]]
    /\ handled' = [handled EXCEPT ![files[idx]] = @ + 1]
    /\ cycleRan' = cycleRan \cup {files[idx]}
    /\ UNCHANGED <<notIngVars, drv, files, idx, processed, exitCode, inbox, cfgVars, resp,
                   runs, artifacts, runWrote, calls, errLog, ingressLog,
                   commitRes, lastStatus, now>>

\* Mutant of DriverReturn: nothing is recorded in $processed.
DriverReturnForgetting ==
    /\ drv = "foreach" /\ pc = "returned"
    /\ pc' = "idle"
    /\ idx' = idx + 1
    /\ cur' = NoRun /\ resp' = NoResp /\ runWrote' = <<>> /\ calls' = 0
    /\ commitRes' = None
    /\ UNCHANGED <<notIngVars, drv, files, processed, exitCode, cycleRan, inbox, cfgVars,
                   runs, artifacts, errLog, ingressLog, handled, lastStatus, now>>

\* Mutant of DriverReturn: only a successful run is recorded in $processed.
DriverReturnUnlessFailed ==
    /\ drv = "foreach" /\ pc = "returned"
    /\ pc' = "idle"
    /\ idx' = idx + 1
    /\ processed' = IF mode = "watch" /\ lastStatus[files[idx]] = "success"
                    THEN processed \cup {files[idx]} ELSE processed
    /\ cur' = NoRun /\ resp' = NoResp /\ runWrote' = <<>> /\ calls' = 0
    /\ commitRes' = None
    /\ UNCHANGED <<notIngVars, drv, files, exitCode, cycleRan, inbox, cfgVars, runs,
                   artifacts, errLog, ingressLog, handled, lastStatus, now>>

\* Invoke-ProcessTranscript has returned, its locals are gone: watch mode
\* records the path in $processed (line 286), whatever the run did.
DriverReturn ==
    /\ drv = "foreach" /\ pc = "returned"
    /\ pc' = "idle"
    /\ idx' = idx + 1
    /\ processed' = IF mode = "watch" THEN processed \cup {files[idx]} ELSE processed
    /\ cur' = NoRun /\ resp' = NoResp /\ runWrote' = <<>> /\ calls' = 0
    /\ commitRes' = None
    /\ UNCHANGED <<notIngVars, drv, files, exitCode, cycleRan, inbox, cfgVars, runs,
                   artifacts, errLog, ingressLog, handled, lastStatus, now>>

\* The foreach is over: the script ends, or watch mode sleeps (line 290).
DriverBatchEnd ==
    /\ drv = "foreach" /\ pc = "idle" /\ idx > Len(files)
    /\ IF mode = "watch"
       THEN drv' = "sleep" /\ UNCHANGED exitCode
       ELSE drv' = "exit" /\ exitCode' = "0"
    /\ UNCHANGED <<notIngVars, files, idx, processed, cycleRan, inbox, runVars, cfgVars>>

\* Start-Sleep is over; the while ($true) loop goes round.
WatchSleep ==
    /\ drv = "sleep"
    /\ drv' = "scan"
    /\ UNCHANGED <<notIngVars, files, idx, processed, exitCode, cycleRan, inbox, runVars, cfgVars>>

\* ------------------------------------------------ Invoke-ProcessTranscript
\* Lines 70-106: read the file, take the timestamp and the hash, build the
\* envelope.  Get-Sha12 has a mandatory string parameter, which an empty
\* text does not bind to: the error ends the script ($ErrorActionPreference
\* is "Stop" and nothing catches it).
Begin ==
    /\ pc = "begin"
    /\ IF inbox[cur.file] = ""
       THEN /\ pc' = "dead" /\ drv' = "crashed" /\ exitCode' = "1"
            /\ UNCHANGED <<cur, now, runWrote, calls, commitRes, resp>>
       ELSE /\ \E t \in now..MaxTime :
                 /\ now' = t
                 /\ cur' = [file |-> cur.file, ts |-> t,
                            sha |-> Get_Sha12(inbox[cur.file]),
                            content |-> inbox[cur.file]]
            /\ pc' = "envelope"
            /\ runWrote' = <<>>
            /\ calls' = 0
            /\ commitRes' = None
            /\ resp' = NoResp
            /\ UNCHANGED <<drv, exitCode>>
    /\ UNCHANGED <<notIngVars, files, idx, processed, cycleRan, inbox, cfgVars, runs, artifacts,
                   errLog, ingressLog, handled, lastStatus>>

\* Lines 108-113: the run folder (New-Item -Force keeps an existing one) and
\* the copy of the transcript, raw.txt.
SaveRaw ==
    /\ pc = "envelope"
    /\ runs' = [runs EXCEPT ![RunFolder(cur)].raw = cur.content]
    /\ runWrote' = Append(runWrote, <<"raw", "">>)
    /\ pc' = "raw_saved"
    /\ UNCHANGED <<notIngVars, drvVars, inbox, cfgVars, cur, resp, artifacts, calls, errLog,
                   ingressLog, commitRes, handled, lastStatus, now>>

\* A step past line 114 that leaves request.json unwritten.
SaveRequestSkipped ==
    /\ pc = "raw_saved"
    /\ pc' = "request_saved"
    /\ UNCHANGED <<notIngVars, drvVars, inbox, cfgVars, cur, resp, runs, artifacts, runWrote,
                   calls, errLog, ingressLog, commitRes, handled, lastStatus, now>>

\* Line 114: request.json, the envelope.
SaveRequest ==
    /\ pc = "raw_saved"
    /\ runs' = [runs EXCEPT ![RunFolder(cur)].request = cur.file]
    /\ runWrote' = Append(runWrote, <<"request", "">>)
    /\ pc' = "request_saved"
    /\ UNCHANGED <<notIngVars, drvVars, inbox, cfgVars, cur, resp, artifacts, calls, errLog,
                   ingressLog, commitRes, handled, lastStatus, now>>

\* Line 116: the "started" line of ingress.log.
LogStarted ==
    /\ pc = "request_saved"
    /\ ingressLog' = Append(ingressLog, <<cur.ts, "started">>)
    /\ pc' = "call"
    /\ UNCHANGED <<notIngVars, drvVars, inbox, cfgVars, cur, resp, runs, artifacts, runWrote,
                   calls, errLog, commitRes, handled, lastStatus, now>>

\* Line 120 and Invoke-FlowRequest: one POST, which throws or returns.
CallFlow ==
    /\ pc = "call"
    /\ calls' = calls + 1
    /\ \E o \in FlowOutcomes :
          /\ resp' = o
          /\ pc' = IF o.st = "threw" THEN "catch" ELSE "save_response"
    /\ UNCHANGED <<notIngVars, drvVars, inbox, cfgVars, cur, runs, artifacts, runWrote, errLog,
                   ingressLog, commitRes, handled, lastStatus, now>>

\* Line 127, still inside the try: response.json.  Write-JsonFile's -Object is
\* mandatory, so an empty response does not bind and the catch block runs.
SaveResponse ==
    /\ pc = "save_response"
    /\ IF resp.st = "empty"
       THEN /\ pc' = "catch"
            /\ UNCHANGED <<runs, runWrote>>
       ELSE /\ runs' = [runs EXCEPT ![RunFolder(cur)].response = TRUE]
            /\ runWrote' = Append(runWrote, <<"response", "">>)
            /\ pc' = "validate"
    /\ UNCHANGED <<notIngVars, drvVars, inbox, cfgVars, cur, resp, artifacts, calls, errLog,
                   ingressLog, commitRes, handled, lastStatus, now>>

\* Mutant of CatchFailed: the first failure of the POST is retried once.
CatchFailedRetry ==
    /\ pc = "catch"
    /\ IF calls < 2 /\ resp.st = "threw"
       THEN /\ pc' = "call"
            /\ UNCHANGED <<errLog, runs, runWrote, lastStatus>>
       ELSE /\ errLog' = Append(errLog, <<cur.ts, "error">>)
            /\ runs' = WriteMeta(runs, cur, "failed", ErrorMessage(resp))
            /\ runWrote' = Append(runWrote, <<"meta", "failed">>)
            /\ lastStatus' = [lastStatus EXCEPT ![cur.file] = "failed"]
            /\ pc' = "returned"
    /\ UNCHANGED <<notIngVars, drvVars, inbox, cfgVars, cur, resp, artifacts, calls,
                   ingressLog, commitRes, handled, now>>

\* Lines 129-147: the catch block logs to errors.log, writes the failed meta
\* and returns.
CatchFailed ==
    /\ pc = "catch"
    /\ errLog' = Append(errLog, <<cur.ts, "error">>)
    /\ runs' = WriteMeta(runs, cur, "failed", ErrorMessage(resp))
    /\ runWrote' = Append(runWrote, <<"meta", "failed">>)
    /\ lastStatus' = [lastStatus EXCEPT ![cur.file] = "failed"]
    /\ pc' = "returned"
    /\ UNCHANGED <<notIngVars, drvVars, inbox, cfgVars, cur, resp, artifacts, calls,
                   ingressLog, commitRes, handled, now>>

\* Validation that goes on to the artifacts after the validation_failed
\* meta.
ValidateWithoutReturn ==
    /\ pc = "validate"
    /\ IF ResponseValid(resp)
       THEN UNCHANGED <<errLog, runs, runWrote, lastStatus>>
       ELSE /\ errLog' = Append(errLog, <<cur.ts, "validation_error">>)
            /\ runs' = WriteMeta(runs, cur, "validation_failed", None)
            /\ runWrote' = Append(runWrote, <<"meta", "validation_failed">>)
            /\ lastStatus' = [lastStatus EXCEPT ![cur.file] = "validation_failed"]
    /\ pc' = "write_norm"
    /\ UNCHANGED <<notIngVars, drvVars, inbox, cfgVars, cur, resp, artifacts, calls,
                   ingressLog, commitRes, handled, now>>

\* Lines 149-181: validation; an invalid response is logged, gets the
\* validation_failed meta, and the function returns.
Validate ==
    /\ pc = "validate"
    /\ IF ResponseValid(resp)
       THEN /\ pc' = "write_norm"
            /\ UNCHANGED <<errLog, runs, runWrote, lastStatus>>
       ELSE /\ errLog' = Append(errLog, <<cur.ts, "validation_error">>)
            /\ runs' = WriteMeta(runs, cur, "validation_failed", None)
            /\ runWrote' = Append(runWrote, <<"meta", "validation_failed">>)
            /\ lastStatus' = [lastStatus EXCEPT ![cur.file] = "validation_failed"]
            /\ pc' = "returned"
    /\ UNCHANGED <<notIngVars, drvVars, inbox, cfgVars, cur, resp, artifacts, calls,
                   ingressLog, commitRes, handled, now>>

\* Lines 184-194: one Write-JsonFile per artifact.
WriteArtifactFile(kind, next) ==
    /\ artifacts' = artifacts \cup {ArtifactPath(kind, resp[kind])}
    /\ runWrote' = Append(runWrote, ArtifactPath(kind, resp[kind]))
    /\ pc' = next
    /\ UNCHANGED <<notIngVars, drvVars, inbox, cfgVars, cur, resp, runs, calls, errLog,
                   ingressLog, commitRes, handled, lastStatus, now>>

WriteNorm == pc = "write_norm" /\ WriteArtifactFile("norm", "write_tac")

WriteTac == pc = "write_tac" /\ WriteArtifactFile("tac", "write_sig")

WriteSig == pc = "write_sig" /\ WriteArtifactFile("sig", "write_meta")

\* Mutant of WriteSuccessMeta: the source file is moved out of the ingress
\* folder once the success meta is written.
WriteSuccessMetaArchiving ==
    /\ pc = "write_meta"
    /\ runs' = WriteMeta(runs, cur, "success", None)
    /\ runWrote' = Append(runWrote, <<"meta", "success">>)
    /\ ingressLog' = Append(ingressLog, <<cur.ts, "success">>)
    /\ lastStatus' = [lastStatus EXCEPT ![cur.file] = "success"]
    /\ inbox' = [inbox EXCEPT ![cur.file] = Absent]
    /\ pc' = IF commitCfg THEN "commit" ELSE "returned"
    /\ UNCHANGED <<notIngVars, drvVars, cfgVars, cur, resp, artifacts, calls, errLog,
                   commitRes, handled, now>>

\* Lines 201-218: the success meta and the "success" line of ingress.log.
WriteSuccessMeta ==
    /\ pc = "write_meta"
    /\ runs' = WriteMeta(runs, cur, "success", None)
    /\ runWrote' = Append(runWrote, <<"meta", "success">>)
    /\ ingressLog' = Append(ingressLog, <<cur.ts, "success">>)
    /\ lastStatus' = [lastStatus EXCEPT ![cur.file] = "success"]
    /\ pc' = IF commitCfg THEN "commit" ELSE "returned"
    /\ UNCHANGED <<notIngVars, drvVars, inbox, cfgVars, cur, resp, artifacts, calls, errLog,
                   commitRes, handled, now>>

\* Lines 220-237 and Invoke-GitCommit: git add / git commit are native
\* commands, whose non-zero exit raises nothing; only a git that cannot be
\* started throws, and the catch turns that into a yellow console line.
GitCommit ==
    /\ pc = "commit"
    /\ commitRes' \in {"committed", "exit_nonzero", "threw_warned"}
    /\ pc' = "returned"
    /\ UNCHANGED <<notIngVars, drvVars, inbox, cfgVars, cur, resp, runs, artifacts, runWrote,
                   calls, errLog, ingressLog, handled, lastStatus, now>>

\* Lines 222-232: what the console shows for the commit.  Line 227 runs
\* whenever Invoke-GitCommit raised nothing, that is also after a git commit
\* that exited non-zero; line 230 runs in the catch block only.
CommitConsoleLine(res) ==
    IF res = "threw_warned" THEN "Git commit failed" ELSE "Git commit created."

\* The commit did not happen.
CommitFailed(res) == res \in {"exit_nonzero", "threw_warned"}

IngNext ==
    \/ Arrive
    \/ MainFile
    \/ MainOnce
    \/ MainWatch
    \/ WatchScan
    \/ DriverSkip
    \/ DriverCall
    \/ DriverReturn
    \/ DriverBatchEnd
    \/ WatchSleep
    \/ Begin
    \/ SaveRaw
    \/ SaveRequest
    \/ LogStarted
    \/ CallFlow
    \/ SaveResponse
    \/ CatchFailed
    \/ Validate
    \/ WriteNorm
    \/ WriteTac
    \/ WriteSig
    \/ WriteSuccessMeta
    \/ GitCommit

\* ====================================================================
\* The simple pipeline variants: Invoke-KnowledgeIngress.ps1 with OAuth
\* (bearer token, Power Automate flow) and with an API key (Messages API)
\* ====================================================================
\* Largest value of the UTC clock, in minutes.
MaxClock == 2
\* Largest expires_in of a token response, in minutes.
MaxExpiresIn == 3
\* Number of token requests one process makes in the model.
MaxTokenCalls == 2

\* [datetime]::MinValue, the initial $script:TokenExpiresAt.
MinValue == 0
\* The buffer of the cache test, AddMinutes(-2).
TokenBufferMinutes == 2

\* Files matching the FileFilter (*.txt) and what they hold (" " is a file
\* of white space only).
SFileNames == {"notes.txt", "memo.txt"}
SContents == {"hello", " "}
SScanOrder == <<"memo.txt", "notes.txt">>

SListing(box) == SelectSeq(SScanOrder, LAMBDA f : box[f] # Absent)

\* [System.IO.Path]::GetFileNameWithoutExtension
BaseName(f) ==
    CASE f = "notes.txt" -> "notes"
      [] f = "memo.txt"  -> "memo"
      [] OTHER           -> f

BaseNames == {BaseName(f) : f \in SFileNames}

\* Get-OutputFileName: "{timestamp}_{baseName}.md".
Get_OutputFileName(stamp, sourceName) == <<stamp, BaseName(sourceName)>>

\* [string]::IsNullOrWhiteSpace
IsNullOrWhiteSpace(text) == text \in {"", " ", None}

\* The token endpoint's answer: access_token may be missing or blank,
\* expires_in may be missing.
TokenResponses ==
    [access_token : {"tokA", "tokB", "", Absent}, has_expires_in : BOOLEAN,
     expires_in : 1..MaxExpiresIn]
NoTokenResp == [access_token |-> Absent, has_expires_in |-> FALSE, expires_in |-> 1]

\* What the latest call of Get-OAuthToken found at its cache test (the time,
\* the cached pair) and how many token requests that call has made.
NoCheck ==
    [made |-> FALSE, t |-> 0, token |-> None, exp |-> MinValue, acq |-> 0,
     prevHit |-> FALSE]

\* The flow's answer: the configured response field holds text, is empty,
\* or is not there; the Messages API's answer: content with text blocks,
\* content without a text block, or no content.
RemoteAnswers == {"text", "empty", "absent"}

\* Mutant of TokenStillValid: the two-minute buffer is forgotten.
TokenStillValidNoBuffer(token, expiresAt, utcNow) ==
    token # None /\ utcNow < expiresAt

\* Line 92: $script:CachedToken -and UtcNow -lt TokenExpiresAt.AddMinutes(-2)
TokenStillValid(token, expiresAt, utcNow) ==
    token # None /\ utcNow < expiresAt - TokenBufferMinutes

SimpleInit ==
    /\ variant \in {"oauth", "apikey"}
    /\ sOnce \in BOOLEAN
    /\ sInbox \in [SFileNames -> SContents \cup {Absent}]
    /\ sArchive = [f \in SFileNames |-> Absent]
    /\ sOutput = {}
    /\ sDrv = "scan"
    /\ sFiles = <<>>
    /\ sIdx = 1
    /\ sPc = "idle"
    /\ sFile = None
    /\ sText = None
    /\ sNow = 0
    /\ cachedToken = None
    /\ tokenExpiresAt = MinValue
    /\ tokenResp = NoTokenResp
    /\ accessToken = None
    /\ flowResp = None
    /\ sResult = None
    /\ sErr = None
    /\ lastCheck = NoCheck
    /\ tokenCalls = 0

sDrvVars == <<sDrv, sFiles, sIdx>>
sCfgVars == <<variant, sOnce>>
sDiskVars == <<sInbox, sArchive, sOutput>>
sTokVars == <<cachedToken, tokenExpiresAt, tokenResp, accessToken, lastCheck,
              tokenCalls>>
sRunVars == <<sFile, sText, flowResp, sResult, sErr>>

\* A file is dropped in the inbox (by the operator), between two scans;
\* a name that was archived is not used again.
SArrive ==
    /\ sDrv = "scan"
    /\ \E f \in SFileNames, c \in SContents :
          /\ sInbox[f] = Absent /\ sArchive[f] = Absent
          /\ sInbox' = [sInbox EXCEPT ![f] = c]
    /\ UNCHANGED <<notSimpleVars, sArchive, sOutput, sDrvVars, sCfgVars, sTokVars,
                   sRunVars, sPc, sNow>>

\* Top of the do loop (lines 218-221, 421-424): Get-ChildItem; with nothing
\* found the iteration is over.
SScan ==
    /\ sDrv = "scan"
    /\ sFiles' = SListing(sInbox)
    /\ sIdx' = 1
    /\ sDrv' = IF Len(SListing(sInbox)) > 0 THEN "foreach"
               ELSE IF sOnce THEN "done" ELSE "sleep"
    /\ UNCHANGED <<notSimpleVars, sDiskVars, sCfgVars, sTokVars, sRunVars, sPc,
                   sNow>>

\* foreach ($file in $files) { try { Process-InboxFile ... (lines 223-225).
SDriverCall ==
    /\ sDrv = "foreach" /\ sPc = "idle" /\ sIdx <= Len(sFiles)
    /\ sFile' = sFiles[sIdx]
    /\ sText' = None /\ flowResp' = None /\ sResult' = None /\ sErr' = None
    /\ sPc' = "read"
    /\ UNCHANGED <<notSimpleVars, sDiskVars, sDrvVars, sCfgVars, sTokVars, sNow>>

\* Process-InboxFile returned without an error; its locals are gone.
SDriverReturn ==
    /\ sDrv = "foreach" /\ sPc = "returned"
    /\ sPc' = "idle"
    /\ sIdx' = sIdx + 1
    /\ sFile' = None /\ sText' = None /\ flowResp' = None /\ sResult' = None
    /\ accessToken' = None
    /\ UNCHANGED <<notSimpleVars, sDiskVars, sDrv, sFiles, sCfgVars, cachedToken,
                   tokenExpiresAt, tokenResp, lastCheck, tokenCalls, sErr, sNow>>

\* catch { Write-Error ... } (lines 227-229, 430-432): with
\* $ErrorActionPreference = "Stop" Write-Error raises a terminating error,
\* which nothing catches: the script ends there.
SDriverCatch ==
    /\ sDrv = "foreach" /\ sPc = "raised"
    /\ sDrv' = "crashed"
    /\ sPc' = "dead"
    /\ sText' = None /\ flowResp' = None /\ sResult' = None
    /\ accessToken' = None
    /\ UNCHANGED <<notSimpleVars, sDiskVars, sFiles, sIdx, sCfgVars, cachedToken,
                   tokenExpiresAt, tokenResp, lastCheck, tokenCalls, sFile, sErr, sNow>>

\* The foreach is over: -Once leaves the loop, polling sleeps (lines 236-239).
SBatchEnd ==
    /\ sDrv = "foreach" /\ sPc = "idle" /\ sIdx > Len(sFiles)
    /\ sDrv' = IF sOnce THEN "done" ELSE "sleep"
    /\ UNCHANGED <<notSimpleVars, sDiskVars, sFiles, sIdx, sCfgVars, sTokVars,
                   sRunVars, sPc, sNow>>

\* Start-Sleep is over; the do ... while goes round.
SSleep ==
    /\ sDrv = "sleep"
    /\ sDrv' = "scan"
    /\ UNCHANGED <<notSimpleVars, sDiskVars, sFiles, sIdx, sCfgVars, sTokVars,
                   sRunVars, sPc, sNow>>

\* Process-InboxFile, lines 176-184 and 384-392: read the file; a blank one
\* is skipped (and stays in the inbox).
SReadFile ==
    /\ sPc = "read"
    /\ sText' = sInbox[sFile]
    /\ sPc' = IF IsNullOrWhiteSpace(sInbox[sFile]) THEN "returned"
              ELSE IF variant = "oauth" THEN "token_check" ELSE "llm_post"
    /\ UNCHANGED <<notSimpleVars, sDiskVars, sDrvVars, sCfgVars, sTokVars, sFile,
                   flowResp, sResult, sErr, sNow>>

\* Get-OAuthToken, line 92: the cached token is returned while it is valid.
\* The clock is read here; it may have advanced since it was last read.
TokenCheck ==
    /\ sPc = "token_check"
    /\ \E t \in sNow..MaxClock :
          /\ sNow' = t
          /\ lastCheck' = [made |-> TRUE, t |-> t, token |-> cachedToken,
                            exp |-> tokenExpiresAt, acq |-> 0,
                            prevHit |-> lastCheck.made /\ lastCheck.acq = 0]
          /\ IF TokenStillValid(cachedToken, tokenExpiresAt, t)
             THEN accessToken' = cachedToken /\ sPc' = "flow_post"
             ELSE accessToken' = None /\ sPc' = "token_request"
    /\ UNCHANGED <<notSimpleVars, sDiskVars, sDrvVars, sCfgVars, sRunVars,
                   cachedToken, tokenExpiresAt, tokenResp, tokenCalls>>

\* Lines 96-106: the client-credentials POST to the token endpoint, which
\* throws or answers.
TokenRequest ==
    /\ sPc = "token_request"
    /\ tokenCalls < MaxTokenCalls
    /\ lastCheck' = [lastCheck EXCEPT !.acq = @ + 1]
    /\ tokenCalls' = tokenCalls + 1
    /\ \/ /\ sErr' = "token_error" /\ sPc' = "raised"
          /\ UNCHANGED tokenResp
       \/ /\ \E r \in TokenResponses : tokenResp' = r
          /\ sPc' = "token_store"
          /\ UNCHANGED sErr
    /\ UNCHANGED <<notSimpleVars, sDiskVars, sDrvVars, sCfgVars, sFile, sText,
                   flowResp, sResult, cachedToken, tokenExpiresAt, accessToken,
                   sNow>>

\* Lines 108-116: no access token throws; otherwise the token is cached
\* (line 112) and then its expiry (line 113), which reads expires_in: under
\* Set-StrictMode -Version Latest a response without that property raises
\* there, after the token was stored.  $tokenResponse is a local.
TokenStore ==
    /\ sPc = "token_store"
    /\ IF tokenResp.access_token \in {"", Absent}
       THEN /\ sErr' = "token_error" /\ sPc' = "raised"
            /\ UNCHANGED <<cachedToken, tokenExpiresAt, accessToken, sNow>>
       ELSE /\ cachedToken' = tokenResp.access_token
            /\ IF tokenResp.has_expires_in
               THEN /\ \E t \in sNow..MaxClock :
                          /\ sNow' = t
                          /\ tokenExpiresAt' = t + tokenResp.expires_in
                    /\ accessToken' = tokenResp.access_token
                    /\ sPc' = "flow_post"
                    /\ UNCHANGED sErr
               ELSE /\ sErr' = "token_error" /\ sPc' = "raised"
                    /\ UNCHANGED <<tokenExpiresAt, accessToken, sNow>>
    /\ tokenResp' = NoTokenResp
    /\ UNCHANGED <<notSimpleVars, sDiskVars, sDrvVars, sCfgVars, sFile, sText,
                   flowResp, sResult, lastCheck, tokenCalls>>

\* Send-ToFlow, line 144: the bearer-authenticated POST, which throws or
\* answers.
FlowPost ==
    /\ sPc = "flow_post"
    /\ \/ /\ sErr' = "remote_error" /\ sPc' = "raised"
          /\ UNCHANGED flowResp
       \/ /\ flowResp' \in RemoteAnswers
          /\ sPc' = "flow_extract"
          /\ UNCHANGED sErr
    /\ UNCHANGED <<notSimpleVars, sDiskVars, sDrvVars, sCfgVars, sTokVars, sFile,
                   sText, sResult, sNow>>

\* Lines 146-154 and 189-192: $response.$ResponseField; a property that is
\* not there raises under strict mode; an empty one is warned about and
\* Process-InboxFile returns with "No result returned".
FlowExtract ==
    /\ sPc = "flow_extract"
    /\ CASE flowResp = "absent" ->
              sErr' = "strict_error" /\ sPc' = "raised" /\ UNCHANGED sResult
         [] flowResp = "empty" ->
              sResult' = "" /\ sPc' = "returned" /\ UNCHANGED sErr
         [] OTHER ->
              sResult' = "reply" /\ sPc' = "write_output" /\ UNCHANGED sErr
    /\ UNCHANGED <<notSimpleVars, sDiskVars, sDrvVars, sCfgVars, sTokVars, sFile,
                   sText, flowResp, sNow>>

\* Send-ToLLM, lines 357-362: the POST with the API key, then the text
\* blocks of the answer joined; the result is written whatever it is.
LlmPost ==
    /\ sPc = "llm_post"
    /\ \/ /\ sErr' = "remote_error" /\ sPc' = "raised"
          /\ UNCHANGED <<flowResp, sResult>>
       \/ /\ \E a \in RemoteAnswers :
                /\ flowResp' = a
                /\ CASE a = "absent" ->
                          sErr' = "strict_error" /\ sPc' = "raised"
                          /\ UNCHANGED sResult
                     [] a = "empty" ->
                          sResult' = "" /\ sPc' = "write_output" /\ UNCHANGED sErr
                     [] OTHER ->
                          sResult' = "reply" /\ sPc' = "write_output"
                          /\ UNCHANGED sErr
    /\ UNCHANGED <<notSimpleVars, sDiskVars, sDrvVars, sCfgVars, sTokVars, sFile,
                   sText, sNow>>

\* Lines 194-199 and 397-402: the output file, named by the local time and
\* the base name, is (over)written with the result.
SWriteOutput ==
    /\ sPc = "write_output"
    /\ sOutput' = {o \in sOutput : o.path # Get_OutputFileName(sNow, sFile)}
                      \cup {[path |-> Get_OutputFileName(sNow, sFile), text |-> sResult]}
    /\ sPc' = "archive"
    /\ UNCHANGED <<notSimpleVars, sInbox, sArchive, sDrvVars, sCfgVars, sTokVars,
                   sRunVars, sNow>>

\* Lines 201-204 and 404-407: Move-Item -Force to the archive.
SArchiveFile ==
    /\ sPc = "archive"
    /\ sArchive' = [sArchive EXCEPT ![sFile] = sInbox[sFile]]
    /\ sInbox' = [sInbox EXCEPT ![sFile] = Absent]
    /\ sPc' = "returned"
    /\ UNCHANGED <<notSimpleVars, sOutput, sDrvVars, sCfgVars, sTokVars, sRunVars,
                   sNow>>

SimpleNext ==
    \/ SArrive
    \/ SScan
    \/ SDriverCall
    \/ SDriverReturn
    \/ SDriverCatch
    \/ SBatchEnd
    \/ SSleep
    \/ SReadFile
    \/ TokenCheck
    \/ TokenRequest
    \/ TokenStore
    \/ FlowPost
    \/ FlowExtract
    \/ LlmPost
    \/ SWriteOutput
    \/ SArchiveFile

\* ====================================================================
\* The artifact repository registry (artifact-repos.ts) and cli.ts
\* ====================================================================
\* ------------------------------------------------------------- paths
\* A path segment is a sequence of characters, a path a sequence of
\* segments; String.startsWith compares characters, not segments.
SegW == <<"w">>
SegKi == <<"k", "i">>
SegKb == <<"k", "b">>
SegKbO == <<"k", "b", "-", "o">>
SegRepos == <<"r", "e", "p", "o", "s">>
SegEtc == <<"e", "t", "c">>
SegPasswd == <<"p", "a", "s", "s", "w", "d">>
SegSub == <<"s", "u", "b">>
SegF == <<"f">>
SegX == <<"x">>
SegUp == <<".", ".">>
SegDot == <<".">>

\* resolve(import.meta.dirname, ".."): the project root, here /w/ki.
ProjectRoot == <<SegW, SegKi>>

\* The path arguments, by their text.
PathOf(text) ==
    CASE text = "../kb" -> [abs |-> FALSE, segs |-> <<SegUp, SegKb>>]
      [] text = "repos/kb" -> [abs |-> FALSE, segs |-> <<SegRepos, SegKb>>]
      [] text = "/etc" -> [abs |-> TRUE, segs |-> <<SegEtc>>]
      [] text = "../../etc/passwd" ->
            [abs |-> FALSE, segs |-> <<SegUp, SegUp, SegEtc, SegPasswd>>]
      [] text = "/etc/passwd" -> [abs |-> TRUE, segs |-> <<SegEtc, SegPasswd>>]
      [] text = "sub/f" -> [abs |-> FALSE, segs |-> <<SegSub, SegF>>]
      [] text = "../kb-o/x" -> [abs |-> FALSE, segs |-> <<SegUp, SegKbO, SegX>>]

RepoPaths == {"../kb", "repos/kb", "/etc"}
FilePaths == {"../../etc/passwd", "/etc/passwd", "sub/f", "../kb-o/x"}
\* Contents: a well-formed string, and one with an unpaired surrogate.
LoneSurrogate == "\\uD800"
ReplacementChar == "\\uFFFD"
ArtifactContents == {"C", LoneSurrogate}

\* The string read back (utf-8) from the bytes writeFile stores for a string
\* (utf-8): an unpaired surrogate is stored as the replacement character.
Utf8Stored(content) ==
    IF content = LoneSurrogate THEN ReplacementChar ELSE content

RECURSIVE NormalizeFrom(_, _)
\* path.resolve's normalisation: "." is dropped, ".." removes the segment
\* before it and is dropped at the root.
NormalizeFrom(done, rest) ==
    IF rest = <<>> THEN done
    ELSE LET seg == Head(rest)
         IN  NormalizeFrom(
                 IF seg = SegDot THEN done
                 ELSE IF seg = SegUp
                      THEN (IF done = <<>> THEN done
                            ELSE SubSeq(done, 1, Len(done) - 1))
                      ELSE Append(done, seg),
                 Tail(rest))

\* path.resolve(base, p) for an absolute base.
Resolve(base, p) ==
    NormalizeFrom(<<>>, IF p.abs THEN p.segs ELSE base \o p.segs)

resolveRepoPath(repoPath) == Resolve(ProjectRoot, PathOf(repoPath))

RECURSIVE PathString(_)
\* The string of an absolute path: "/" for the root, else /seg/seg...
PathString(segs) ==
    IF segs = <<>> THEN <<"/">>
    ELSE IF Len(segs) = 1 THEN <<"/">> \o segs[1]
         ELSE PathString(SubSeq(segs, 1, Len(segs) - 1))
                  \o <<"/">> \o segs[Len(segs)]

StartsWith(str, prefix) ==
    Len(prefix) <= Len(str) /\ SubSeq(str, 1, Len(prefix)) = prefix

\* dir is the directory at path or one below it.
IsAtOrBelow(dir, path) ==
    Len(path) <= Len(dir) /\ SubSeq(dir, 1, Len(path)) = path

\* Containment compared segment by segment.
PathAcceptedBySegments(fullPath, resolvedBase) ==
    /\ Len(resolvedBase) <= Len(fullPath)
    /\ SubSeq(fullPath, 1, Len(resolvedBase)) = resolvedBase

\* fullPath.startsWith(resolvedBase)
PathAccepted(fullPath, resolvedBase) ==
    StartsWith(PathString(fullPath), PathString(resolvedBase))

\* ------------------------------------------------------------- registry
RepoNames == {"kb", "7", "constructor"}
Configs == [path : RepoPaths, description : {"knowledge base"}]
NoCfg == [path |-> None, description |-> None]
\* The values a property read gives: an own entry's config, a member of
\* Object.prototype, or undefined.
Undefined == [kind |-> "undefined", cfg |-> NoCfg]
Inherited == [kind |-> "inherited", cfg |-> NoCfg]

\* Members every object inherits from Object.prototype.
ObjectPrototypeMembers == {"constructor", "toString", "valueOf", "__proto__"}

\* Property names that are array indices come first in an object's key order.
IsIndexKey(name) == name \in {"7"}
IndexOf(name) == CASE name = "7" -> 7 [] OTHER -> 0

RECURSIVE SortIndexKeys(_)
SortIndexKeys(entries) ==
    IF entries = <<>> THEN <<>>
    ELSE LET i == CHOOSE k \in 1..Len(entries) :
                      \A j \in 1..Len(entries) :
                          IndexOf(entries[k].name) <= IndexOf(entries[j].name)
         IN  <<entries[i]>> \o
             SortIndexKeys(SubSeq(entries, 1, i - 1)
                               \o SubSeq(entries, i + 1, Len(entries)))

IndexEntry(e) == IsIndexKey(e.name)
NamedEntry(e) == ~IsIndexKey(e.name)

\* The own properties of an object in JavaScript's key order.
ObjectOrder(entries) ==
    SortIndexKeys(SelectSeq(entries, IndexEntry)) \o SelectSeq(entries, NamedEntry)

Keys(obj) == {obj[i].name : i \in 1..Len(obj)}

\* JSON.parse of the registry file's artifacts; JSON.stringify of the object.
JsonParse(text) == ObjectOrder(text)
JsonStringify(obj) == obj

\* config.artifacts[name]
GetProp(obj, name) ==
    IF name \in Keys(obj)
    THEN (LET i == CHOOSE k \in 1..Len(obj) : obj[k].name = name
          IN  [kind |-> "own", cfg |-> obj[i].cfg])
    ELSE IF name \in ObjectPrototypeMembers THEN Inherited ELSE Undefined

\* config.artifacts[name] = repoConfig
SetProp(obj, name, cfg) ==
    IF name \in Keys(obj)
    THEN [i \in 1..Len(obj) |->
             IF obj[i].name = name THEN [name |-> name, cfg |-> cfg] ELSE obj[i]]
    ELSE ObjectOrder(Append(obj, [name |-> name, cfg |-> cfg]))

Truthy(v) == v.kind # "undefined"

loadConfig == JsonParse(regFile)
saveConfig(config) == JsonStringify(config)

RegCallers == {1, 2}
NoArgs == [name |-> None, cfg |-> NoCfg]
NoOp == [op |-> None, name |-> None, arg |-> None, cfg |-> NoCfg,
         content |-> None,
         outcome |-> None, base |-> <<>>, full |-> <<>>, touched |-> None,
         value |-> None, before |-> <<>>]

\* What is at a repository path: nothing, a plain directory, a plain
\* directory inside another repository's clean work tree, a repository
\* without a commit, a repository whose index cannot be read, a clean and a
\* changed checked-out repository.
DiskKinds == {"absent", "dir", "dir_in_repo", "git_unborn", "git_bad_index",
              "git_clean", "git_dirty"}
Roots == {resolveRepoPath(p) : p \in RepoPaths}

\* The registries registerRepo can have produced.
RegistrableNames == {n \in RepoNames : ~Truthy(GetProp(<<>>, n))}
RegistryEntries == [name : RegistrableNames, cfg : Configs]
ProducedRegistries ==
    {r \in UNION {[1..n -> RegistryEntries] : n \in 0..Cardinality(RegistrableNames)} :
        /\ \A i, j \in 1..Len(r) : r[i].name = r[j].name => i = j
        /\ r = ObjectOrder(r)}

\* The orders of registration that leave the registry file reg: the names
\* of reg in any order whose entries, put in key order, give reg.
InsertionOrders(reg) ==
    {o \in [1..Len(reg) -> Keys(reg)] :
        /\ \A i, j \in 1..Len(o) : o[i] = o[j] => i = j
        /\ ObjectOrder([i \in 1..Len(o) |->
                           [name |-> o[i], cfg |-> GetProp(reg, o[i]).cfg]]) = reg}

RepoIdle ==
    /\ regFile = <<>> /\ regInserted = <<>> /\ fs = {}
    /\ disk = [r \in Roots |-> "absent"]
    /\ regPc = [p \in RegCallers |-> "idle"]
    /\ regArgs = [p \in RegCallers |-> NoArgs]
    /\ regLoaded = [p \in RegCallers |-> <<>>]
    /\ opResult = NoOp
    /\ cliPc = "idle" /\ cliEntries = <<>> /\ cliStatuses = <<>>
    /\ cliOut = <<>> /\ cliExit = None

regVars == <<regPc, regArgs, regLoaded>>
cliVars == <<cliPc, cliEntries, cliStatuses, cliOut, cliExit>>

\* ------------------------------------------------------- registerRepo
\* const config = await loadConfig();
RegisterLoad(p) ==
    /\ regPc[p] = "idle"
    /\ \E name \in RepoNames, cfg \in Configs :
          regArgs' = [regArgs EXCEPT ![p] = [name |-> name, cfg |-> cfg]]
    /\ regLoaded' = [regLoaded EXCEPT ![p] = loadConfig]
    /\ regPc' = [regPc EXCEPT ![p] = "loaded"]
    /\ opResult' = NoOp
    /\ UNCHANGED <<regFile, regInserted, fs, disk, cliVars, notRepoVars>>

\* A save that reads the registry file again and adds its entry to that.
RegisterSaveMerging(p) ==
    /\ regPc[p] = "loaded"
    /\ LET config == loadConfig
           name == regArgs[p].name
           res == [NoOp EXCEPT !.op = "register", !.name = name,
                               !.cfg = regArgs[p].cfg, !.before = regLoaded[p]]
       IN  IF Truthy(GetProp(config, name))
           THEN /\ opResult' = [res EXCEPT !.outcome = "AlreadyRegistered"]
                /\ UNCHANGED <<regFile, regInserted>>
           ELSE /\ regFile' = saveConfig(SetProp(config, name, regArgs[p].cfg))
                /\ regInserted' = Append(regInserted, name)
                /\ opResult' = [res EXCEPT !.outcome = "ok"]
    /\ regPc' = [regPc EXCEPT ![p] = "idle"]
    /\ regArgs' = [regArgs EXCEPT ![p] = NoArgs]
    /\ regLoaded' = [regLoaded EXCEPT ![p] = <<>>]
    /\ UNCHANGED <<fs, disk, cliVars, notRepoVars>>

\* The check, the insertion and saveConfig.
RegisterSave(p) ==
    /\ regPc[p] = "loaded"
    /\ LET config == regLoaded[p]
           name == regArgs[p].name
           res == [NoOp EXCEPT !.op = "register", !.name = name,
                               !.cfg = regArgs[p].cfg, !.before = config]
       IN  IF Truthy(GetProp(config, name))
           THEN /\ opResult' = [res EXCEPT !.outcome = "AlreadyRegistered"]
                /\ UNCHANGED <<regFile, regInserted>>
           ELSE /\ regFile' = saveConfig(SetProp(config, name, regArgs[p].cfg))
                /\ regInserted' = Append(regInserted, name)
                /\ opResult' = [res EXCEPT !.outcome = "ok"]
    /\ regPc' = [regPc EXCEPT ![p] = "idle"]
    /\ regArgs' = [regArgs EXCEPT ![p] = NoArgs]
    /\ regLoaded' = [regLoaded EXCEPT ![p] = <<>>]
    /\ UNCHANGED <<fs, disk, cliVars, notRepoVars>>

\* ---------------------------------------------- writeArtifact, readArtifact
Dirname(path) == SubSeq(path, 1, Len(path) - 1)

\* mkdir(dir, { recursive: true }): every missing ancestor is created.
Mkdir(d, dir) ==
    [r \in Roots |->
        IF d[r] = "absent" /\ IsAtOrBelow(dir, r) THEN "dir" ELSE d[r]]

FileAt(path) == {e \in fs : e.path = path}

\* The lookup and the containment check both operations start with.
Locate(op, repoName, filePath) ==
    LET repoConfig == GetProp(loadConfig, repoName)
        res == [NoOp EXCEPT !.op = op, !.name = repoName, !.arg = filePath]
    IN  IF ~Truthy(repoConfig) THEN [res EXCEPT !.outcome = "NotFound"]
        ELSE IF repoConfig.kind = "inherited"
             \* repoConfig.path is undefined and path.resolve rejects it
             THEN [res EXCEPT !.outcome = "TypeError"]
             ELSE LET resolvedBase == resolveRepoPath(repoConfig.cfg.path)
                      fullPath == Resolve(resolvedBase, PathOf(filePath))
                      at == [res EXCEPT !.base = resolvedBase, !.full = fullPath]
                  IN  IF ~PathAccepted(fullPath, resolvedBase)
                      THEN [at EXCEPT !.outcome = "PathEscape"]
                      ELSE [at EXCEPT !.outcome = "ok"]

WriteArtifact ==
    /\ \A p \in RegCallers : regPc[p] = "idle"
    /\ \E repoName \in RepoNames, filePath \in FilePaths,
          content \in ArtifactContents :
          \E at \in {Locate("write", repoName, filePath)} :
              IF at.outcome # "ok"
              THEN /\ opResult' = at
                   /\ UNCHANGED <<fs, disk>>
              ELSE /\ disk' = Mkdir(disk, Dirname(at.full))
                   /\ fs' = (fs \ FileAt(at.full))
                               \cup {[path |-> at.full,
                                      content |-> Utf8Stored(content),
                                      given |-> content]}
                   /\ opResult' = [at EXCEPT !.content = content,
                                             !.touched = at.full,
                                             !.value = at.full]
    /\ UNCHANGED <<regFile, regInserted, regVars, cliVars, notRepoVars>>

ReadArtifact ==
    /\ \A p \in RegCallers : regPc[p] = "idle"
    /\ \E repoName \in RepoNames, filePath \in FilePaths :
          \E at \in {Locate("read", repoName, filePath)} :
              IF at.outcome # "ok"
              THEN opResult' = at
              ELSE IF FileAt(at.full) = {}
                   THEN opResult' = [at EXCEPT !.outcome = "ENOENT",
                                               !.touched = at.full]
                   ELSE opResult' =
                            [at EXCEPT !.touched = at.full,
                                       !.value = (CHOOSE e \in FileAt(at.full) :
                                                     TRUE).content]
    /\ UNCHANGED <<regFile, regInserted, fs, disk, regVars, cliVars, notRepoVars>>

ReposNext ==
    \/ RegisterLoad(1)
    \/ RegisterSave(1)
    \/ WriteArtifact
    \/ ReadArtifact

\* ----------------------------------------------------------- initRepo
\* resolve(resolvedPath, "README.md") and resolve(resolvedPath, ".gitignore")
ReadmePath(root) == Append(root, <<"R", "E", "A", "D", "M", "E", ".", "m", "d">>)
GitignorePath(root) ==
    Append(root, <<".", "g", "i", "t", "i", "g", "n", "o", "r", "e">>)

\* The README's text, which starts with "# {name}".
Readme(name) ==
    CASE name = "kb" -> "# kb"
      [] name = "7" -> "# 7"
      [] OTHER -> "# constructor"

\* initRepo settles: it rejects with the awaited step that rejected, and
\* what the steps before it did stays, or it resolves ("ok").
InitSettle(p, how) ==
    /\ opResult' = [opResult EXCEPT !.outcome = how]
    /\ regPc' = [regPc EXCEPT ![p] = "idle"]
    /\ regArgs' = [regArgs EXCEPT ![p] = NoArgs]
    /\ regLoaded' = [regLoaded EXCEPT ![p] = <<>>]

\* An awaited step of initRepo resolves.
InitGoOn(p, next) ==
    /\ regPc' = [regPc EXCEPT ![p] = next]
    /\ UNCHANGED <<opResult, regArgs, regLoaded>>

\* Lines 148-150: the path is resolved and the directory made, with its
\* missing ancestors; mkdir rejects, for one, under a read-only parent.
\* One call of initRepo is followed, from any registry and any directories.
InitMkdir(p) ==
    /\ regPc[p] = "idle" /\ opResult = NoOp
    /\ \E name \in RepoNames, cfg \in Configs, ok \in BOOLEAN :
          /\ opResult' = [NoOp EXCEPT !.op = "init", !.name = name, !.cfg = cfg,
                                      !.base = resolveRepoPath(cfg.path),
                                      !.before = regFile,
                                      !.outcome = IF ok THEN None ELSE "mkdir"]
          /\ regArgs' = [regArgs EXCEPT ![p] =
                            IF ok THEN [name |-> name, cfg |-> cfg] ELSE NoArgs]
          /\ regPc' = [regPc EXCEPT ![p] = IF ok THEN "init_git" ELSE "idle"]
          /\ disk' = IF ok THEN Mkdir(disk, resolveRepoPath(cfg.path)) ELSE disk
    /\ UNCHANGED <<regFile, regInserted, fs, regLoaded, cliVars, notRepoVars>>

\* A failing git init that takes the directory away again.
InitGitInitRollingBack(p) ==
    /\ regPc[p] = "init_git"
    /\ \E ok \in BOOLEAN :
          IF ok
          THEN /\ InitGoOn(p, "init_readme")
               /\ disk' = [disk EXCEPT ![opResult.base] =
                              IF @ \in {"dir", "dir_in_repo"} THEN "git_unborn" ELSE @]
          ELSE /\ InitSettle(p, "git init")
               /\ disk' = [disk EXCEPT ![opResult.base] = "absent"]
    /\ UNCHANGED <<regFile, regInserted, fs, cliVars, notRepoVars>>

\* Line 151: git init makes a repository without a commit of a directory
\* that is none, and leaves an existing repository as it is.
InitGitInit(p) ==
    /\ regPc[p] = "init_git"
    /\ \E ok \in BOOLEAN :
          IF ok
          THEN /\ InitGoOn(p, "init_readme")
               /\ disk' = [disk EXCEPT ![opResult.base] =
                              IF @ \in {"dir", "dir_in_repo"} THEN "git_unborn" ELSE @]
          ELSE /\ InitSettle(p, "git init")
               /\ UNCHANGED disk
    /\ UNCHANGED <<regFile, regInserted, fs, cliVars, notRepoVars>>

\* Lines 153-155: README.md is (over)written.
InitReadme(p) ==
    /\ regPc[p] = "init_readme"
    /\ \E ok \in BOOLEAN :
          IF ok
          THEN /\ InitGoOn(p, "init_ignore")
               /\ fs' = (fs \ FileAt(ReadmePath(opResult.base)))
                           \cup {[path |-> ReadmePath(opResult.base),
                                  content |-> Utf8Stored(Readme(regArgs[p].name)),
                                  given |-> Readme(regArgs[p].name)]}
          ELSE /\ InitSettle(p, "write README.md")
               /\ UNCHANGED fs
    /\ UNCHANGED <<regFile, regInserted, disk, cliVars, notRepoVars>>

\* Lines 157-159: .gitignore is (over)written.
InitGitignore(p) ==
    /\ regPc[p] = "init_ignore"
    /\ \E ok \in BOOLEAN :
          IF ok
          THEN /\ InitGoOn(p, "init_add")
               /\ fs' = (fs \ FileAt(GitignorePath(opResult.base)))
                           \cup {[path |-> GitignorePath(opResult.base),
                                  content |-> "node_modules/",
                                  given |-> "node_modules/"]}
          ELSE /\ InitSettle(p, "write .gitignore")
               /\ UNCHANGED fs
    /\ UNCHANGED <<regFile, regInserted, disk, cliVars, notRepoVars>>

\* Line 161: git add . , which cannot succeed over an unreadable index.
InitGitAdd(p) ==
    /\ regPc[p] = "init_add"
    /\ \E ok \in BOOLEAN :
          IF ok /\ disk[opResult.base] # "git_bad_index"
          THEN InitGoOn(p, "init_commit")
          ELSE InitSettle(p, "git add")
    /\ UNCHANGED <<regFile, regInserted, fs, disk, cliVars, notRepoVars>>

\* Line 162: git commit; it exits non-zero, for one, with nothing to commit
\* or without a committer identity.
InitGitCommit(p) ==
    /\ regPc[p] = "init_commit"
    /\ \E ok \in BOOLEAN :
          IF ok
          THEN /\ InitGoOn(p, "init_remote")
               /\ disk' = [disk EXCEPT ![opResult.base] = "git_clean"]
          ELSE /\ InitSettle(p, "git commit")
               /\ UNCHANGED disk
    /\ UNCHANGED <<regFile, regInserted, fs, cliVars, notRepoVars>>

\* Lines 165-167: git remote add origin, when the config names a remote.
InitRemote(p) ==
    /\ regPc[p] = "init_remote"
    /\ \E remote \in BOOLEAN, ok \in BOOLEAN :
          IF remote /\ ~ok
          THEN InitSettle(p, "git remote add")
          ELSE InitGoOn(p, "init_register")
    /\ UNCHANGED <<regFile, regInserted, fs, disk, cliVars, notRepoVars>>

\* Line 170, registerRepo's loadConfig.
InitRegisterLoad(p) ==
    /\ regPc[p] = "init_register"
    /\ regLoaded' = [regLoaded EXCEPT ![p] = loadConfig]
    /\ regPc' = [regPc EXCEPT ![p] = "init_loaded"]
    /\ UNCHANGED <<regFile, regInserted, fs, disk, regArgs, opResult, cliVars,
                   notRepoVars>>

\* Line 170, registerRepo's check, insertion and saveConfig, and line 172.
InitRegisterSave(p) ==
    /\ regPc[p] = "init_loaded"
    /\ IF Truthy(GetProp(regLoaded[p], regArgs[p].name))
       THEN /\ InitSettle(p, "AlreadyRegistered")
            /\ UNCHANGED <<regFile, regInserted>>
       ELSE /\ regFile' = saveConfig(SetProp(regLoaded[p], regArgs[p].name,
                                             regArgs[p].cfg))
            /\ regInserted' = Append(regInserted, regArgs[p].name)
            /\ InitSettle(p, "ok")
    /\ UNCHANGED <<fs, disk, cliVars, notRepoVars>>

\* Two processes registering at the same time.
RaceNext ==
    \/ RegisterLoad(1)
    \/ RegisterSave(1)
    \/ RegisterLoad(2)
    \/ RegisterSave(2)

InitRepoNext ==
    \/ InitMkdir(1)
    \/ InitGitInit(1)
    \/ InitReadme(1)
    \/ InitGitignore(1)
    \/ InitGitAdd(1)
    \/ InitGitCommit(1)
    \/ InitRemote(1)
    \/ InitRegisterLoad(1)
    \/ InitRegisterSave(1)



\* ------------------------------------------------------- getRepoStatus
GitKinds == {"dir_in_repo", "git_unborn", "git_bad_index", "git_clean",
             "git_dirty"}
Unset == "unset"
Pending == [name |-> None, config |-> NoCfg, exists |-> FALSE,
            isGitRepo |-> FALSE, resolvedPath |-> <<>>,
            currentBranch |-> Unset, hasUncommittedChanges |-> Unset,
            gitRuns |-> 0, settled |-> FALSE]

\* The git-dir probe taken to succeed everywhere.
GitDirProbeNeverFails(kind) == FALSE

\* The three git queries on a directory of the given kind: the git-dir
\* probe, the current-branch query, the working-tree status query.
GitDirProbeFails(kind) == kind \notin GitKinds
BranchQueryNeverFails(kind) == FALSE
BranchQueryFails(kind) == kind = "git_unborn"
StatusQueryFails(kind) == kind = "git_bad_index"

getRepoStatus(name, config) ==
    LET resolvedPath == resolveRepoPath(config.path)
        kind == disk[resolvedPath]
        base == [Pending EXCEPT !.name = name, !.config = config,
                                !.resolvedPath = resolvedPath,
                                !.settled = TRUE]
    IN  IF kind = "absent" THEN base
        ELSE IF GitDirProbeFails(kind)
             THEN [base EXCEPT !.exists = TRUE, !.gitRuns = 1]
        ELSE IF BranchQueryFails(kind)
             THEN [base EXCEPT !.exists = TRUE, !.isGitRepo = TRUE,
                               !.gitRuns = 2]
        ELSE IF StatusQueryFails(kind)
             THEN [base EXCEPT !.exists = TRUE, !.isGitRepo = TRUE,
                               !.gitRuns = 3, !.currentBranch = "main"]
             ELSE [base EXCEPT !.exists = TRUE, !.isGitRepo = TRUE,
                               !.gitRuns = 3,
                               !.currentBranch = "main",
                               !.hasUncommittedChanges =
                                   IF kind = "git_dirty" THEN "true" ELSE "false"]

\* ------------------------------------------------- cli.ts validate-repos
\* What the loop of handleValidateRepos prints for one status.
StatusLines(status) ==
    <<  <<IF status.exists /\ status.isGitRepo THEN "ok" ELSE "MISSING",
          status.name>>  >>
    \o (IF ~status.exists THEN << <<"ERROR_missing", status.name>> >>
        ELSE IF ~status.isGitRepo THEN << <<"ERROR_not_git", status.name>> >>
        ELSE << <<"branch", status.name>> >>
                 \o (IF status.hasUncommittedChanges = "true"
                     THEN << <<"WARNING_uncommitted", status.name>> >>
                     ELSE <<>>))

RECURSIVE ReportLines(_)
ReportLines(statuses) ==
    IF statuses = <<>> THEN <<>>
    ELSE StatusLines(Head(statuses)) \o ReportLines(Tail(statuses))

\* allValid with uncommitted changes counted as invalid as well.
AllValidAndClean(statuses) ==
    \A i \in 1..Len(statuses) :
        /\ statuses[i].exists /\ statuses[i].isGitRepo
        /\ statuses[i].hasUncommittedChanges # "true"

\* allValid after the loop.
AllValid(statuses) ==
    \A i \in 1..Len(statuses) :
        IF ~statuses[i].exists THEN FALSE
        ELSE IF ~statuses[i].isGitRepo THEN FALSE ELSE TRUE

\* getAllRepoStatuses: load, Object.entries, one query per entry, all issued
\* at once.
ValidateStart ==
    /\ cliPc = "idle"
    /\ cliEntries' = loadConfig
    /\ cliStatuses' = [i \in 1..Len(loadConfig) |-> Pending]
    /\ cliPc' = "querying"
    /\ UNCHANGED <<regFile, regInserted, fs, disk, regVars, opResult, cliOut, cliExit,
                   notRepoVars>>

\* The result of a completed query put at the first free place.
StatusSettleByArrival(i) ==
    /\ cliPc = "querying"
    /\ i \in 1..Len(cliStatuses)
    /\ ~cliStatuses[i].settled
    /\ LET k == CHOOSE k \in 1..Len(cliStatuses) :
                    /\ ~cliStatuses[k].settled
                    /\ \A j \in 1..(k - 1) : cliStatuses[j].settled
       IN  cliStatuses' = [cliStatuses EXCEPT
                              ![k] = getRepoStatus(cliEntries[i].name,
                                                   cliEntries[i].cfg)]
    /\ UNCHANGED <<regFile, regInserted, fs, disk, regVars, opResult, cliPc,
                   cliEntries, cliOut, cliExit, notRepoVars>>

\* One of the queries completes; Promise.all keeps its result at its index.
StatusSettle(i) ==
    /\ cliPc = "querying"
    /\ i \in 1..Len(cliStatuses)
    /\ ~cliStatuses[i].settled
    /\ cliStatuses' = [cliStatuses EXCEPT
                          ![i] = getRepoStatus(cliEntries[i].name, cliEntries[i].cfg)]
    /\ UNCHANGED <<regFile, regInserted, fs, disk, regVars, opResult, cliPc,
                   cliEntries, cliOut, cliExit, notRepoVars>>

\* The rest of handleValidateRepos and the end of the process.
ValidateReport ==
    /\ cliPc = "querying"
    /\ \A i \in 1..Len(cliStatuses) : cliStatuses[i].settled
    /\ IF Len(cliStatuses) = 0
       THEN /\ cliOut' = << <<"none_configured", None>> >>
            /\ cliExit' = 0
       ELSE IF ~AllValid(cliStatuses)
            THEN /\ cliOut' = Append(ReportLines(cliStatuses),
                                     <<"some_invalid", None>>)
                 /\ cliExit' = 1
            ELSE /\ cliOut' = Append(ReportLines(cliStatuses),
                                     <<"all_valid", None>>)
                 /\ cliExit' = 0
    /\ cliPc' = "done"
    /\ UNCHANGED <<regFile, regInserted, fs, disk, regVars, opResult, cliEntries,
                   cliStatuses, notRepoVars>>

StatusNext ==
    \/ ValidateStart
    \/ \E i \in 1..Cardinality(RegistrableNames) : StatusSettle(i)
    \/ ValidateReport

\* A registry registerRepo has produced, and directories of any kind at the
\* registered paths.
StatusInit ==
    /\ regFile \in ProducedRegistries
    /\ regInserted \in InsertionOrders(regFile)
    /\ disk \in {d \in [Roots -> DiskKinds] :
                    \A r \in Roots :
                        (\A i \in 1..Len(regFile) :
                             resolveRepoPath(regFile[i].cfg.path) # r)
                            => d[r] = "absent"}
    /\ fs = {}
    /\ regPc = [p \in RegCallers |-> "idle"]
    /\ regArgs = [p \in RegCallers |-> NoArgs]
    /\ regLoaded = [p \in RegCallers |-> <<>>]
    /\ opResult = NoOp
    /\ cliPc = "idle" /\ cliEntries = <<>> /\ cliStatuses = <<>>
    /\ cliOut = <<>> /\ cliExit = None

\* ====================================================================
\* The specifications
\* ====================================================================
\* A pipeline that is not run: the script has not been started.
IngIdle ==
    /\ mode = "once" /\ fileArg = None /\ commitCfg = FALSE
    /\ inbox = [f \in FileNames |-> Absent]
    /\ now = 0 /\ drv = "main" /\ files = <<>> /\ idx = 1 /\ processed = {}
    /\ pc = "idle" /\ cur = NoRun /\ resp = NoResp
    /\ runs = [k \in RunKeys |-> EmptyFolder]
    /\ artifacts = {} /\ runWrote = <<>> /\ calls = 0 /\ errLog = <<>>
    /\ ingressLog = <<>> /\ commitRes = None /\ exitCode = None
    /\ handled = [f \in FileNames |-> 0]
    /\ lastStatus = [f \in FileNames |-> None]
    /\ cycleRan = {}

SimpleIdle ==
    /\ variant = "oauth" /\ sOnce = TRUE
    /\ sInbox = [f \in SFileNames |-> Absent]
    /\ sArchive = [f \in SFileNames |-> Absent]
    /\ sOutput = {} /\ sDrv = "scan" /\ sFiles = <<>> /\ sIdx = 1
    /\ sPc = "idle" /\ sFile = None /\ sText = None /\ sNow = 0
    /\ cachedToken = None /\ tokenExpiresAt = MinValue
    /\ tokenResp = NoTokenResp /\ accessToken = None /\ flowResp = None
    /\ sResult = None /\ sErr = None /\ lastCheck = NoCheck
    /\ tokenCalls = 0

\* The structured pipeline, scripts/Invoke-Ingress.ps1.
Init == IngInit /\ SimpleIdle /\ RepoIdle

Next == IngNext

Spec == Init /\ [][Next]_vars

\* The simple variants, Invoke-KnowledgeIngress.ps1.
InitSimple == SimpleInit /\ IngIdle /\ RepoIdle

SpecSimple == InitSimple /\ [][SimpleNext]_vars

\* The registry and the artifact files, artifact-repos.ts, one caller.
InitRepos == RepoIdle /\ IngIdle /\ SimpleIdle

SpecRepos == InitRepos /\ [][ReposNext]_vars

\* The validate-repos command of cli.ts over a registry and its directories.
InitStatus == StatusInit /\ IngIdle /\ SimpleIdle

SpecStatus == InitStatus /\ [][StatusNext]_vars

\* registerRepo called by two processes over one registry file.
InitRace == RepoIdle /\ IngIdle /\ SimpleIdle

SpecRace == InitRace /\ [][RaceNext]_vars

\* initRepo over a registry and its directories.
InitInitRepo == StatusInit /\ IngIdle /\ SimpleIdle

SpecInitRepo == InitInitRepo /\ [][InitRepoNext]_vars

\* ====================================================================
\* Properties of the structured pipeline (specification Spec)
\* ====================================================================
\* The response carries all three artifacts, each with exactly its own tag.
ExactlyTagged(r) == \A k \in Kinds : r[k].present /\ r[k].type = k

\* The artifact files the current run has written, in order.
ArtifactWrites == SelectSeq(runWrote, LAMBDA w : w[1] \in Kinds)

MetaWrites == SelectSeq(runWrote, LAMBDA w : w[1] = "meta")

ThreePaths(r) == << <<"norm", r.norm.id>>, <<"tac", r.tac.id>>, <<"sig", r.sig.id>> >>

FailStatuses == {"failed", "validation_failed"}

\* C1 (as claimed): a run whose remote response lacks one of norm, tac, sig,
\* or carries an artifact.type different from its own tag, has returned with
\* meta.json status validation_failed and has written no artifact file.
C1_InvalidResponseWritesNothing ==
    (pc = "returned" /\ resp.st = "json" /\ ~ ExactlyTagged(resp))
        => /\ runs[RunFolder(cur)].meta = "validation_failed"
           /\ ArtifactWrites = <<>>

\* C2: a run whose response carries all three artifacts, each with its own
\* tag, has written exactly the three files norm/{norm id}, tac/{tac id},
\* sig/{sig id} and its meta.json says success; and whenever a run has
\* written the success meta, the three files were written before it.
C2_ValidResponseWritesThree ==
    /\ (pc = "returned" /\ resp.st = "json" /\ ExactlyTagged(resp))
          => /\ ArtifactWrites = ThreePaths(resp)
             /\ \A i \in 1..3 : ThreePaths(resp)[i] \in artifacts
             /\ runs[RunFolder(cur)].meta = "success"
    /\ \A i \in 1..Len(runWrote) :
          runWrote[i] = <<"meta", "success">>
             => /\ SubSeq(ArtifactWrites, 1, 3) = ThreePaths(resp)
                /\ \A j \in 1..Len(runWrote) : runWrote[j][1] \in Kinds => j < i

C2_Witness ==
    /\ pc = "returned" /\ resp.st = "json" /\ ExactlyTagged(resp)
    /\ resp.norm.id = "n2"
    /\ runs[RunFolder(cur)].meta = "success"

C8_RemoteFailureStops ==
    (pc = "returned" /\ resp.st = "threw")
        => /\ calls = 1
           /\ Len(errLog) > 0 /\ errLog[Len(errLog)] = <<cur.ts, "error">>
           /\ runs[RunFolder(cur)].meta = "failed"
           /\ runs[RunFolder(cur)].error = "flow_request_error"
           /\ MetaWrites = << <<"meta", "failed">> >>
           /\ runWrote[Len(runWrote)] = <<"meta", "failed">>
           /\ ArtifactWrites = <<>>
           /\ \A i \in 1..Len(runWrote) : runWrote[i][1] # "response"

C8_Witness ==
    /\ pc = "returned" /\ resp.st = "threw"
    /\ runs[RunFolder(cur)].meta = "failed"

\* ====================================================================
\* Properties of the simple variants (specification SpecSimple)
\* ====================================================================
\* C5: a call of Get-OAuthToken makes no token request when a token is
\* cached and the time of the call is earlier than the token's expiry minus
\* two minutes, and then hands out the cached token; in every other case it
\* makes exactly one token request.
C5_TokenCachedWithinWindow ==
    lastCheck.made =>
       /\ lastCheck.acq <= 1
       /\ IF lastCheck.token # None /\ lastCheck.t < lastCheck.exp - 2
          THEN /\ lastCheck.acq = 0
               /\ sPc # "token_request"
               /\ sPc = "flow_post" => accessToken = lastCheck.token
          ELSE lastCheck.acq = 1 \/ sPc = "token_request"

\* Three calls in a row: the first acquires, the second is served from the
\* cache, the third comes after the window and acquires again.
C5_Witness ==
    /\ tokenCalls = 2
    /\ lastCheck.made /\ lastCheck.acq = 1 /\ lastCheck.prevHit
    /\ lastCheck.token # None /\ lastCheck.t >= lastCheck.exp - 2
    /\ sPc = "flow_post"

\* C9 (as claimed): after a remote error on one file the driver goes on.
C9_DriverContinuesAfterRemoteError ==
    sErr = "remote_error" => sDrv # "crashed"

\* ====================================================================
\* Properties of the registry and the artifact files (SpecRepos)
\* ====================================================================
\* prefix is a leading part of str, character by character.
IsLeadingPart(prefix, str) ==
    /\ Len(prefix) <= Len(str)
    /\ \A i \in 1..Len(prefix) : str[i] = prefix[i]

\* The last operation was writeArtifact or readArtifact on a registered
\* repository.
ArtifactOpOnRegistered ==
    /\ opResult.op \in {"write", "read"}
    /\ opResult.outcome \notin {"NotFound", "TypeError"}

\* C3 (as claimed): for every registered repository root, writeArtifact and
\* readArtifact with filePath "../../etc/passwd" fail with the path-escape
\* error and write or read no file.
C3_EtcPasswdEscapesEveryRoot ==
    (ArtifactOpOnRegistered /\ opResult.arg = "../../etc/passwd")
        => (opResult.outcome = "PathEscape" /\ opResult.touched = None)

\* C3 (amended): writeArtifact and readArtifact on a registered repository
\* fail with the path-escape error, without writing or reading a file,
\* exactly when the string of the resolved absolute path does not begin with
\* the string of the repository's resolved root.
C3_EscapeIffNotPrefixed ==
    ArtifactOpOnRegistered =>
       /\ opResult.outcome = "PathEscape"
             <=> ~IsLeadingPart(PathString(opResult.base),
                                PathString(opResult.full))
       /\ opResult.outcome = "PathEscape" => opResult.touched = None
       /\ opResult.outcome # "PathEscape" => opResult.touched = opResult.full

\* writeArtifact("kb", "../../etc/passwd", _) with kb at ../kb was refused.
C3_Witness ==
    /\ opResult.op = "write" /\ opResult.arg = "../../etc/passwd"
    /\ opResult.base = resolveRepoPath("../kb")
    /\ opResult.full = <<SegEtc, SegPasswd>>
    /\ opResult.outcome = "PathEscape" /\ opResult.touched = None

\* C4 (as claimed): registerRepo fails exactly when the name is already a key
\* of the registry; on success a following loadConfig returns the previous
\* registry plus exactly that entry; on failure the registry is unchanged.
C4_RegisterFailsIffKey ==
    opResult.op = "register" =>
       /\ opResult.outcome # "ok" <=> opResult.name \in Keys(opResult.before)
       /\ opResult.outcome = "ok" =>
             {loadConfig[i] : i \in 1..Len(loadConfig)} =
                 {opResult.before[i] : i \in 1..Len(opResult.before)}
                     \cup {[name |-> opResult.name, cfg |-> opResult.cfg]}
       /\ opResult.outcome # "ok" => loadConfig = opResult.before

KindOf(name) == disk[resolveRepoPath(GetProp(regFile, name).cfg.path)]

C12_StatusesInInsertionOrder ==
    /\ cliPc # "idle" => Len(cliStatuses) = Len(regInserted)
    /\ \A i \in 1..Len(cliStatuses) :
          cliStatuses[i].settled => cliStatuses[i].name = regInserted[i]

\* C12 (amended): getAllRepoStatuses gives one status per registry entry, in
\* the key order of the registry object whatever the order in which the
\* queries complete: the names that are array indices first, ascending, then
\* the other names in the order of their registration.
C12_StatusesInKeyOrder ==
    LET indexNames == SelectSeq(regInserted, IsIndexKey)
        otherNames == SelectSeq(regInserted, LAMBDA n : ~IsIndexKey(n))
    IN  /\ cliPc # "idle" => Len(cliStatuses) = Len(regInserted)
        /\ \A i \in 1..Len(cliStatuses) :
              cliStatuses[i].settled =>
                 LET st == cliStatuses[i]
                 IN  /\ i <= Len(indexNames) =>
                           /\ \E k \in 1..Len(indexNames) : st.name = indexNames[k]
                           /\ \A j \in 1..(i - 1) :
                                 cliStatuses[j].settled =>
                                    IndexOf(cliStatuses[j].name) < IndexOf(st.name)
                     /\ i > Len(indexNames) =>
                           st.name = otherNames[i - Len(indexNames)]
                     /\ st.config = GetProp(regFile, st.name).cfg
                     /\ st.exists <=> KindOf(st.name) # "absent"

\* "kb" was registered before "7"; the query for the second entry has
\* completed before the one for the first.
C12_Witness ==
    /\ regInserted = <<"kb", "7">>
    /\ cliPc = "querying"
    /\ cliStatuses[2].settled /\ ~cliStatuses[1].settled
    /\ cliStatuses[2].name = "kb"

\* ====================================================================
\* Further properties of the artifact files (SpecRepos)
\* ====================================================================
\* C13 (as claimed): a readArtifact that follows a writeArtifact of content
\* C to the same file of a registered repository returns exactly C; for a
\* repoName that is not registered both operations fail with the not-found
\* error and touch no file.
C13_RoundTripAndNotFound ==
    /\ (opResult.op = "read" /\ opResult.outcome = "ok") =>
          \A e \in FileAt(opResult.full) : opResult.value = e.given
    /\ (opResult.op \in {"write", "read"}
            /\ opResult.name \notin Keys(loadConfig)) =>
          (opResult.outcome = "NotFound" /\ opResult.touched = None)

\* ====================================================================
\* Further properties of the status queries (SpecStatus)
\* ====================================================================
\* C14 (as claimed): for an existing path, a failure of the git-dir probe, of
\* the current-branch query or of the working-tree status query leaves
\* isGitRepo = false and currentBranch and hasUncommittedChanges unset.
C14_AnyGitFailureMeansNoRepo ==
    \A i \in 1..Len(cliStatuses) :
        (cliStatuses[i].settled
            /\ KindOf(cliStatuses[i].name) \in {"dir", "git_unborn", "git_bad_index"})
        => /\ ~cliStatuses[i].isGitRepo
           /\ cliStatuses[i].currentBranch = Unset
           /\ cliStatuses[i].hasUncommittedChanges = Unset

\* C14 (amended): a failure of any of the three git queries is swallowed and
\* a status is returned; isGitRepo is false only when the git-dir probe
\* fails; when the current-branch query fails isGitRepo is true and both
\* fields are unset; when the status query fails isGitRepo is true,
\* currentBranch is set and hasUncommittedChanges is unset.
C14_GitFailureKeepsEarlierResults ==
    \A i \in 1..Len(cliStatuses) :
        cliStatuses[i].settled =>
           LET st == cliStatuses[i]
               kind == KindOf(st.name)
           IN  /\ kind = "dir" =>
                     /\ st.exists /\ ~st.isGitRepo
                     /\ st.currentBranch = Unset
                     /\ st.hasUncommittedChanges = Unset
               /\ kind = "git_unborn" =>
                     /\ st.exists /\ st.isGitRepo
                     /\ st.currentBranch = Unset
                     /\ st.hasUncommittedChanges = Unset
               /\ kind = "git_bad_index" =>
                     /\ st.exists /\ st.isGitRepo
                     /\ st.currentBranch # Unset
                     /\ st.hasUncommittedChanges = Unset

\* The status of a repository without a commit has been returned, and the
\* command has gone on to its report.
C14_Witness ==
    /\ cliPc = "done"
    /\ \E i \in 1..Len(cliStatuses) :
          /\ KindOf(cliStatuses[i].name) = "git_unborn"
          /\ cliStatuses[i].isGitRepo /\ cliStatuses[i].gitRuns = 2

\* ====================================================================
\* Further properties of the structured pipeline (Spec)
\* ====================================================================
\* C15: in watch mode a path is handed to Invoke-ProcessTranscript at most
\* once in the life of the process: only while it is not in $processed, and
\* it is in $processed from the return of its run on, whatever the outcome.
C15_PathHandedOverAtMostOnce ==
    mode = "watch" =>
       \A f \in FileNames :
          /\ handled[f] <= 1
          /\ (cur.file = f /\ pc \notin {"idle", "dead"} /\ pc # "returned")
                => f \notin processed
          /\ f \in processed
                => (handled[f] = 1 /\ cur.file # f /\ lastStatus[f] # None)
          /\ (handled[f] = 1 /\ cur.file # f) => f \in processed

\* The driver stands before a listed file whose run ended validation_failed
\* in an earlier cycle, and finds it in $processed.
C15_Witness ==
    /\ mode = "watch" /\ drv = "foreach" /\ pc = "idle"
    /\ idx <= Len(files)
    /\ files[idx] \in processed
    /\ lastStatus[files[idx]] = "validation_failed"

C17_RunFoldersDistinct ==
    /\ pc = "envelope" => runs[RunFolder(cur)] = EmptyFolder
    /\ \A k \in RunKeys :
          (runs[k].request # None /\ runs[k].source # None)
              => runs[k].request = runs[k].source

\* The place of a position of Invoke-ProcessTranscript in the order of the
\* function's steps.
RunStep(p) ==
    CASE p = "begin" -> 1
      [] p = "envelope" -> 2
      [] p = "raw_saved" -> 3
      [] p = "request_saved" -> 4
      [] p = "call" -> 5
      [] p = "save_response" -> 6
      [] p \in {"catch", "validate"} -> 7
      [] p = "write_norm" -> 8
      [] p = "write_tac" -> 9
      [] p = "write_sig" -> 10
      [] p = "write_meta" -> 11
      [] p = "commit" -> 12
      [] p \in {"returned", "dead"} -> 13

\* C18: a run goes through its steps in one direction only (start, envelope
\* and request saved, remote call, then failed or validated, then
\* validation failed or artifacts written, then the optional commit, then
\* the return): every step of a run leads to a later position; the remote
\* call comes after the request is saved, the artifacts after a response
\* was saved, the success meta after the three artifacts; and a run that has
\* returned has written exactly one meta.json, whose status is success,
\* failed or validation_failed.
C18_RunIsLinear ==
    /\ [][(pc # "idle" /\ pc' # "idle" /\ pc' # pc)
              => RunStep(pc') > RunStep(pc)]_vars
    /\ [](pc = "returned" =>
             /\ Len(MetaWrites) = 1
             /\ MetaWrites[1][2] \in {"success", "failed", "validation_failed"}
             /\ runs[RunFolder(cur)].meta = MetaWrites[1][2]
             /\ runWrote[1] = <<"raw", "">> /\ runWrote[2] = <<"request", "">>
             /\ calls = 1
             /\ MetaWrites[1][2] = "success" =>
                   (ResponseValid(resp) /\ Len(ArtifactWrites) = 3)
             /\ MetaWrites[1][2] # "success" => ArtifactWrites = <<>>)

\* A run has gone the whole way, commit included, and has returned.
C18_Witness ==
    /\ pc = "returned" /\ commitRes = "committed"
    /\ MetaWrites = << <<"meta", "success">> >>
    /\ Len(ArtifactWrites) = 3

\* raw.txt and request.json of the current run are in its run folder, and
\* they are the run's first two writes.
RawAndRequestOnDisk ==
    /\ runs[RunFolder(cur)].raw = cur.content
    /\ runs[RunFolder(cur)].request = cur.file
    /\ Len(runWrote) >= 2
    /\ runWrote[1] = <<"raw", "">> /\ runWrote[2] = <<"request", "">>

\* C19: the remote call is issued only when raw.txt (the copy of the input)
\* and request.json (the envelope) of the run are on disk, and every run whose
\* remote call was attempted has both files, whatever the call's outcome.
C19_RawAndRequestBeforeCall ==
    /\ [][calls' # calls /\ calls' # 0 =>
              (RawAndRequestOnDisk /\ runWrote = << <<"raw", "">>, <<"request", "">> >>)]_vars
    /\ []((calls >= 1 /\ pc \notin {"idle", "begin", "dead"}) => RawAndRequestOnDisk)

\* The POST of a run threw and nothing but raw.txt and request.json has been
\* written by the run.
C19_Witness ==
    /\ pc = "catch" /\ calls = 1 /\ resp.st = "threw"
    /\ runWrote = << <<"raw", "">>, <<"request", "">> >>
    /\ RawAndRequestOnDisk

\* C20 (as claimed): when the commit of a successful run fails, the three
\* artifact files and the success meta.json stay as written, the run counts
\* as a success, and the failure is reported as a warning.
C20_CommitFailureIsWarned ==
    (pc = "returned" /\ CommitFailed(commitRes)) =>
        /\ runs[RunFolder(cur)].meta = "success"
        /\ lastStatus[cur.file] = "success"
        /\ Len(ArtifactWrites) = 3
        /\ \A i \in 1..3 : ArtifactWrites[i] \in artifacts
        /\ CommitConsoleLine(commitRes) = "Git commit failed"

\* The output folder holds the result of the current run of Process-InboxFile.
ResultInOutput ==
    \E o \in sOutput : o.path[2] = BaseName(sFile) /\ o.text = sResult

\* C21 (as claimed): in both simple variants a file is in the archive after
\* its run exactly when the remote call returned a non-empty result, and the
\* output file with that result is there before the move; in the OAuth
\* variant an answer without the response field raises nothing, the run
\* returns with an empty result, and nothing is written or archived.
C21_ArchivedIffNonEmptyResult ==
    /\ sPc \in {"returned", "raised"} =>
          (sArchive[sFile] # Absent <=> (sErr = None /\ sResult = "reply"))
    /\ sPc = "archive" => ResultInOutput
    /\ (variant = "oauth" /\ flowResp = "absent" /\ sPc # "flow_extract") =>
          /\ sPc = "returned" /\ sErr = None /\ sResult = ""
          /\ sArchive[sFile] = Absent /\ ~ResultInOutput

\* ====================================================================
\* Properties of initRepo (specification SpecInitRepo)
\* ====================================================================
InitFailed == opResult.op = "init" /\ opResult.outcome \notin {None, "ok"}

\* C22: initRepo writes the registry only in its last step, when the
\* directory is a repository with the initial commit and both boilerplate
\* files are there; an initRepo that failed at any step, the registration
\* of a taken name included, has left the registry as it found it; and no
\* step, failing or not, takes away a directory or a file made before.
C22_RegistersLastAndNeverRollsBack ==
    /\ [][regFile' # regFile =>
              /\ regPc[1] = "init_loaded" /\ opResult'.outcome = "ok"
              /\ disk[opResult.base] = "git_clean"
              /\ FileAt(ReadmePath(opResult.base)) # {}
              /\ FileAt(GitignorePath(opResult.base)) # {}
              /\ regFile' = ObjectOrder(SetProp(opResult.before, opResult.name,
                                                opResult.cfg))]_vars
    /\ [](InitFailed => (regFile = opResult.before /\ regPc[1] = "idle"))
    /\ [][/\ \A r \in Roots : disk[r] # "absent" => disk'[r] # "absent"
          /\ \A e \in fs : \E e2 \in fs' : e2.path = e.path
          /\ (opResult'.outcome \notin {None, "ok"}) =>
                 (disk' = disk \/ opResult.op # "init" \/ opResult.outcome # None)
          /\ (opResult'.outcome \notin {None, "ok"}) => fs' = fs]_vars

\* initRepo made the directory, the repository, both files and the commit,
\* and then failed to register a name that the registry holds.
C22_Witness ==
    /\ InitFailed /\ opResult.outcome = "AlreadyRegistered"
    /\ opResult.name \in Keys(regFile)
    /\ disk[opResult.base] = "git_clean"
    /\ FileAt(ReadmePath(opResult.base)) # {}
    /\ FileAt(GitignorePath(opResult.base)) # {}

\* ====================================================================
\* Properties of concurrent registration (specification SpecRace)
\* ====================================================================
\* A register operation has just saved the registry.
Saved == opResult.op = "register" /\ opResult.outcome = "ok"

\* C23: after a successful save the registry file is exactly what that save
\* wrote, the registry its caller had loaded with the caller's entry put in,
\* whatever another caller saved in between (last writer wins); and a save
\* whose caller loaded the registry as it still is, no other save having
\* come in between, keeps every entry of the registry.
C23_LastWriterWins ==
    /\ [](Saved => regFile = ObjectOrder(SetProp(opResult.before, opResult.name,
                                                 opResult.cfg)))
    /\ [][\A p \in RegCallers :
             (regPc[p] = "loaded" /\ regPc'[p] = "idle" /\ regLoaded[p] = loadConfig)
                 => \A i \in 1..Len(regFile) :
                       GetProp(regFile', regFile[i].name).cfg = regFile[i].cfg]_vars

\* Two interleaved registrations of one name with different configs have
\* both succeeded, and the registry holds the entry of the second only.
C23_Witness ==
    /\ Saved
    /\ regInserted = <<opResult.name, opResult.name>>
    /\ opResult.before = <<>>
    /\ regFile = <<[name |-> opResult.name, cfg |-> opResult.cfg]>>
    /\ \A p \in RegCallers : regPc[p] = "idle"

\* ====================================================================
\* Containment of artifact paths (specification SpecRepos)
\* ====================================================================
\* C24 (as claimed): every path writeArtifact writes or readArtifact reads
\* is the repository's resolved root or below it, segment by segment, so
\* never in a sibling directory whose name begins with the root's name.
C24_TouchedPathInsideRoot ==
    (opResult.op \in {"write", "read"} /\ opResult.touched # None) =>
        IsAtOrBelow(opResult.full, opResult.base)

\* ====================================================================
\* The token cache on a failed acquisition (specification SpecSimple)
\* ====================================================================
\* C25 (as claimed): when Get-OAuthToken fails, the cached token and its
\* expiry are the pair the call found at its cache test, so the pair is
\* never replaced in part, and no flow request is sent for the file.
C25_FailedAcquisitionLeavesCache ==
    sErr = "token_error" =>
        /\ cachedToken = lastCheck.token
        /\ tokenExpiresAt = lastCheck.exp
        /\ flowResp = None /\ sResult = None

====
